---- MODULE Spec2Model ----
(***************************************************************************)
(* barrel-breaker: the re-export map builder (getReExportMapRecursive),    *)
(* the import rewriter (rewriteImportsInFile / processImportDeclaration)   *)
(* and the purge command (purgeBarrels / isPureBarrelFile).                *)
(***************************************************************************)
EXTENDS Integers, Sequences, FiniteSets, TLC

VARIABLES
    world,          \* module file -> its top-level statements (parsed project)
    reExportCache,  \* the global reExportCache: file path -> re-export map
    stack,          \* call chain of getReExportMapRecursive (innermost last)
    seen,           \* the `seen` set of the running top-level call
    result,         \* value returned by the last finished top-level call
    calls,          \* number of top-level calls made so far in the run
    walked,         \* file -> how often its export declarations were walked
    ast,            \* importing file -> its import declarations in memory
    disk,           \* importing file -> its import declarations as saved
    queue,          \* source files runBarrelBreaker has still to analyse
    writes,         \* the write actions returned by rewriteImportsInFile
    bindingsUpdated,\* the global counter bindingsUpdated
    isDryRun,       \* the isDryRun / dryRun argument
    run,            \* 1 for the first run of the tool, 2 for the second
    original,       \* importing file -> its import declarations before run 1
    fsFiles,        \* the file system: path of an existing file -> its statements
    purgeQueue,     \* sourceFiles purgeBarrels has still to classify
    pureBarrelFiles,    \* the array pureBarrelFiles
    impureBarrelFiles,  \* the array impureBarrelFiles
    purgePos,       \* files of the two arrays the final loops have handled
    log,            \* the lines written to the console by the final loops
    writesRun,      \* write actions runBarrelBreaker has run so far
    summary,        \* the counts of the summary section, once logged
    aliasCall,      \* a call of resolveAlias: its arguments and its result
    sigint,         \* the SIGINT signal: "none", "pending" or "handled"
    pathsConfig,    \* compilerOptions.paths of tsconfig.json
    shown           \* file -> the updated imports its dry-run diff was made from

builderVars == <<reExportCache, stack, seen, result, calls, walked>>
rewriteVars ==
    <<ast, disk, queue, writes, bindingsUpdated, run, original, writesRun, summary, shown>>
purgeVars == <<fsFiles, purgeQueue, pureBarrelFiles, impureBarrelFiles, purgePos, log>>
vars == <<world, builderVars, rewriteVars, purgeVars, isDryRun, aliasCall, sigint, pathsConfig>>

----------------------------------------------------------------------------
(* Universe *)

Modules == {"A", "B", "C"}
Names == {"a", "b"}
NoFile == "none"
NoName == "-"
\* the summary section has not been logged
NoSummary == [files |-> -1, imports |-> -1, bindings |-> -1]
\* resolveAlias is not being called
NoCall == [paths |-> <<>>, resolvedPath |-> <<>>, done |-> TRUE, result |-> <<>>]

\* at most MaxDecls export declarations in the whole project
MaxDecls == 3
\* top-level calls of getReExportMapRecursive in one run
MaxCalls == 2
\* cap on the depth of the call chain (never reached: a chain holds a module once)
MaxDepth == 4
\* named imports of the first import declaration of a file
MaxNamed == 2
\* import declarations of a file
MaxImports == 2
\* aliases of a tsconfig paths table
MaxAliases == 2
\* base paths listed for one alias
MaxBases == 2

\* tsconfig paths {"@m/*": ["./m/*"]}, resolved against tsconfigDir /r
PathsM == <<[alias |-> "@m", bases |-> << <<"r", "m">> >>]>>
\* tsconfig paths {"@i": ["./m/index"]}: an alias of the barrel file alone
PathsIndex == <<[alias |-> "@i", bases |-> << <<"r", "m", "index">> >>]>>

----------------------------------------------------------------------------
(* Statements *)

StarStmt(t) == [kind |-> "star", local |-> NoName, exported |-> NoName, target |-> t]
NamedStmt(l, e, t) == [kind |-> "named", local |-> l, exported |-> e, target |-> t]
LocalExportStmt(n) == [kind |-> "localExport", local |-> n, exported |-> n, target |-> NoFile]
DeclStmt(n) == [kind |-> "decl", local |-> n, exported |-> n, target |-> NoFile]
DefaultStmt == [kind |-> "default", local |-> "default", exported |-> "default", target |-> NoFile]

ExportKinds == {"star", "named", "localExport"}

\* sourceFile.getExportDeclarations()
ExportDeclarations(f) == SelectSeq(world[f], LAMBDA s : s.kind \in ExportKinds)

\* new Map()
EmptyMap == [k \in {} |-> NoName]

\* reExportMap.set(exportedName, value)
MapSet(m, n, v) == [k \in DOMAIN m \cup {n} |-> IF k = n THEN v ELSE m[k]]

\* MapMerge with the entry already in the map kept on a collision
MapMergeKeepFirst(m, nested) ==
    [k \in DOMAIN m \cup DOMAIN nested |-> IF k \in DOMAIN m THEN m[k] ELSE nested[k]]

\* for (const [exportedName, value] of nestedMap.entries()) reExportMap.set(...)
MapMerge(m, nested) ==
    [k \in DOMAIN m \cup DOMAIN nested |-> IF k \in DOMAIN nested THEN nested[k] ELSE m[k]]

----------------------------------------------------------------------------
(* getReExportMapRecursive as a recursive function: the value it returns   *)
(* together with the `seen` set and the cache it leaves behind.            *)

\* IsCached with the cache never consulted
IsCachedNever(f, cache) == FALSE

\* reExportCache.has(filePath)
IsCached(f, cache) == f \in DOMAIN cache

\* AlreadySeen with the cycle guard missing
AlreadySeenNever(f, sn) == FALSE

\* seen.has(filePath)
AlreadySeen(f, sn) == f \in sn

RECURSIVE ReExportMapRec(_, _, _), WalkExports(_, _, _, _, _)

\* sourceFile.getExportDeclarations().forEach(...) from declaration i on
WalkExports(f, i, map, sn, cache) ==
    LET decls == ExportDeclarations(f) IN
    IF i > Len(decls) THEN [map |-> map, seen |-> sn, cache |-> cache]
    ELSE LET d == decls[i] IN
         IF d.target = NoFile THEN WalkExports(f, i + 1, map, sn, cache)
         ELSE IF d.kind = "star"
         THEN LET r == ReExportMapRec(d.target, sn, cache) IN
              WalkExports(f, i + 1, MapMerge(map, r.map), r.seen, r.cache)
         ELSE WalkExports(f, i + 1,
                          MapSet(map, d.exported,
                                 [localName |-> d.local, resolvedPath |-> d.target]),
                          sn, cache)

ReExportMapRec(f, sn, cache) ==
    IF IsCached(f, cache) THEN [map |-> cache[f], seen |-> sn, cache |-> cache]
    ELSE IF AlreadySeen(f, sn) THEN [map |-> EmptyMap, seen |-> sn, cache |-> cache]
    ELSE LET r == WalkExports(f, 1, EmptyMap, sn \cup {f}, cache) IN
         [map |-> r.map, seen |-> r.seen, cache |-> MapSet(r.cache, f, r.map)]

\* getReExportMapRecursive(project, sourceFile) with the default seen = new Set()
GetReExportMap(f, cache) == ReExportMapRec(f, {}, cache)

----------------------------------------------------------------------------
(* getReExportMapRecursive step by step: one action per statement of the   *)
(* function body that changes the call chain, seen or the cache.           *)

Top == stack[Len(stack)]
Frame(f) == [file |-> f, idx |-> 1, map |-> EmptyMap]
Running == stack # <<>>
AtDecl == Running /\ Top.idx <= Len(ExportDeclarations(Top.file))
CurDecl == ExportDeclarations(Top.file)[Top.idx]
SetTop(fr) == [stack EXCEPT ![Len(stack)] = fr]
Advance(map) == SetTop([Top EXCEPT !.idx = @ + 1, !.map = map])

\* a top-level call whose file is cached: lines 291-293
CallCached(f) ==
    /\ ~Running /\ calls < MaxCalls
    /\ IsCached(f, reExportCache)
    /\ result' = reExportCache[f]
    /\ seen' = {}
    /\ calls' = calls + 1
    /\ UNCHANGED <<world, reExportCache, stack, walked, rewriteVars, purgeVars, isDryRun, aliasCall, sigint, pathsConfig>>

\* CallWalk with the seen set of the call before carried over
CallWalkSharedSeen(f) ==
    /\ ~Running /\ calls < MaxCalls
    /\ ~IsCached(f, reExportCache)
    /\ seen' = seen \cup {f}
    /\ stack' = <<Frame(f)>>
    /\ walked' = [walked EXCEPT ![f] = @ + 1]
    /\ calls' = calls + 1
    /\ UNCHANGED <<world, reExportCache, result, rewriteVars, purgeVars, isDryRun, aliasCall,
                   sigint, pathsConfig>>

\* a top-level call that starts walking the file: lines 294-298
CallWalk(f) ==
    /\ ~Running /\ calls < MaxCalls
    /\ ~IsCached(f, reExportCache)
    /\ seen' = {f}
    /\ stack' = <<Frame(f)>>
    /\ walked' = [walked EXCEPT ![f] = @ + 1]
    /\ calls' = calls + 1
    /\ UNCHANGED <<world, reExportCache, result, rewriteVars, purgeVars, isDryRun, aliasCall, sigint, pathsConfig>>

\* an export declaration whose target does not resolve: line 316
SkipUnresolved ==
    /\ AtDecl /\ CurDecl.target = NoFile
    /\ stack' = Advance(Top.map)
    /\ UNCHANGED <<world, reExportCache, seen, result, calls, walked, rewriteVars, purgeVars, isDryRun, aliasCall, sigint, pathsConfig>>

\* export { local as exported } from target: lines 325-329
NamedReExport ==
    /\ AtDecl /\ CurDecl.target # NoFile /\ CurDecl.kind = "named"
    /\ stack' = Advance(MapSet(Top.map, CurDecl.exported,
                        [localName |-> CurDecl.local, resolvedPath |-> CurDecl.target]))
    /\ UNCHANGED <<world, reExportCache, seen, result, calls, walked, rewriteVars, purgeVars, isDryRun, aliasCall, sigint, pathsConfig>>

\* export * from target, target cached: lines 320, 291-293, 321-323
NamespaceCached ==
    /\ AtDecl /\ CurDecl.target # NoFile /\ CurDecl.kind = "star"
    /\ IsCached(CurDecl.target, reExportCache)
    /\ stack' = Advance(MapMerge(Top.map, reExportCache[CurDecl.target]))
    /\ UNCHANGED <<world, reExportCache, seen, result, calls, walked, rewriteVars, purgeVars, isDryRun, aliasCall, sigint, pathsConfig>>

\* export * from target, target already in seen: lines 320, 294-295, 321-323
NamespaceSeen ==
    /\ AtDecl /\ CurDecl.target # NoFile /\ CurDecl.kind = "star"
    /\ ~IsCached(CurDecl.target, reExportCache)
    /\ AlreadySeen(CurDecl.target, seen)
    /\ stack' = Advance(MapMerge(Top.map, EmptyMap))
    /\ UNCHANGED <<world, reExportCache, seen, result, calls, walked, rewriteVars, purgeVars, isDryRun, aliasCall, sigint, pathsConfig>>

\* export * from target, recursing into target: lines 320, 294-298
NamespaceEnter ==
    /\ AtDecl /\ CurDecl.target # NoFile /\ CurDecl.kind = "star"
    /\ ~IsCached(CurDecl.target, reExportCache)
    /\ ~AlreadySeen(CurDecl.target, seen)
    /\ Len(stack) < MaxDepth
    /\ seen' = seen \cup {CurDecl.target}
    /\ stack' = Append(stack, Frame(CurDecl.target))
    /\ walked' = [walked EXCEPT ![CurDecl.target] = @ + 1]
    /\ UNCHANGED <<world, reExportCache, result, calls, rewriteVars, purgeVars, isDryRun, aliasCall, sigint, pathsConfig>>

\* end of the forEach: cache the map and return it, lines 332-333 (and the
\* caller's merge of the returned map, lines 321-323)
Return ==
    /\ Running /\ ~AtDecl
    /\ reExportCache' = MapSet(reExportCache, Top.file, Top.map)
    /\ IF Len(stack) = 1
       THEN /\ stack' = <<>>
            /\ result' = Top.map
       ELSE LET caller == stack[Len(stack) - 1] IN
            /\ stack' = [SubSeq(stack, 1, Len(stack) - 1) EXCEPT ![Len(stack) - 1] =
                            [caller EXCEPT !.idx = @ + 1,
                                           !.map = MapMerge(caller.map, Top.map)]]
            /\ UNCHANGED result
    /\ UNCHANGED <<world, seen, calls, walked, rewriteVars, purgeVars, isDryRun, aliasCall, sigint, pathsConfig>>

----------------------------------------------------------------------------
(* Projects the builder is run on: up to MaxDecls export declarations      *)
(* spread over the modules, in every order and with every target.          *)

DeclOptions ==
    {StarStmt(t) : t \in Modules}
    \cup {NamedStmt("a", "a", "B"), NamedStmt("b", "a", "C"), NamedStmt("b", "b", "C")}
    \cup {LocalExportStmt("a")}

Shapes == {s \in [Modules -> 0..MaxDecls] : s["A"] + s["B"] + s["C"] <= MaxDecls}

IsBuildWorld(w) ==
    \E s \in Shapes :
        \E x \in [1..s["A"] -> DeclOptions],
           y \in [1..s["B"] -> DeclOptions],
           z \in [1..s["C"] -> DeclOptions] : w = [A |-> x, B |-> y, C |-> z]

\* a diamond of `export *`: index.ts reaches c.ts through b.ts and directly
DiamondWorlds ==
    {[A |-> <<StarStmt("B"), StarStmt("C")>>, B |-> <<StarStmt("C")>>, C |-> <<st>>] :
        st \in {NamedStmt("a", "a", "B"), NamedStmt("b", "a", "C")}}

InitBuild ==
    /\ IsBuildWorld(world) \/ world \in DiamondWorlds
    /\ reExportCache = EmptyMap
    /\ stack = <<>>
    /\ seen = {}
    /\ result = EmptyMap
    /\ calls = 0
    /\ walked = [f \in Modules |-> 0]
    /\ ast = EmptyMap /\ disk = EmptyMap /\ original = EmptyMap
    /\ queue = <<>> /\ writes = <<>>
    /\ bindingsUpdated = 0
    /\ isDryRun = FALSE
    /\ run = 1
    /\ fsFiles = EmptyMap /\ purgeQueue = <<>> /\ pureBarrelFiles = <<>>
    /\ impureBarrelFiles = <<>> /\ purgePos = 0 /\ log = <<>>
    /\ writesRun = 0 /\ summary = NoSummary /\ aliasCall = NoCall
    /\ sigint = "none" /\ pathsConfig = PathsM
    /\ shown = EmptyMap

BuilderStep ==
    \/ SkipUnresolved
    \/ NamedReExport
    \/ NamespaceCached
    \/ NamespaceSeen
    \/ NamespaceEnter
    \/ Return

NextBuild ==
    \/ \E f \in Modules : CallCached(f)
    \/ \E f \in Modules : CallWalk(f)
    \/ BuilderStep

SpecBuild == InitBuild /\ [][NextBuild]_vars

----------------------------------------------------------------------------
(* Files, paths and module specifiers.  A path or a specifier is the       *)
(* sequence of its segments: './m/index' is <<".", "m", "index">>.         *)

Importers == {"main"}
Files == Modules \cup Importers
\* /r/other.ts, a second importing file of the projects with two of them
Others == {"other"}

\* /r/main.ts imports; /r/m/index.ts, /r/m/b.ts and /r/m/c.ts are imported
Dir == [f \in Files \cup Others |->
            IF f \in Importers \cup Others THEN <<"r">> ELSE <<"r", "m">>]
Base == [f \in Files \cup Others |->
            CASE f = "A" -> "index" [] f = "B" -> "b" [] f = "C" -> "c" [] OTHER -> f]

\* pathsConfig: line 161
Paths == pathsConfig

\* aliasPrefixes: line 163
AliasPrefixes == {Paths[i].alias : i \in DOMAIN Paths}

\* the value null
Null == <<>>

\* a file path with its extension removed: .replace(/\.tsx?$/, "")
StrippedPath(f) == Dir[f] \o <<Base[f]>>

IsPrefix(p, q) == Len(p) <= Len(q) /\ SubSeq(q, 1, Len(p)) = p

RECURSIVE CommonPrefixLen(_, _)
CommonPrefixLen(p, q) ==
    IF p = <<>> \/ q = <<>> \/ Head(p) # Head(q) THEN 0
    ELSE 1 + CommonPrefixLen(Tail(p), Tail(q))

\* path.relative(fromDir, toPath)
PathRelative(fromDir, toPath) ==
    LET k == CommonPrefixLen(fromDir, toPath) IN
    [i \in 1..(Len(fromDir) - k) |-> ".."] \o SubSeq(toPath, k + 1, Len(toPath))

\* getRelativePath(from, to): lines 273-279
GetRelativePath(from, to) ==
    LET relativePath == PathRelative(Dir[from], StrippedPath(to)) IN
    IF relativePath # <<>> /\ relativePath[1] = ".." THEN relativePath
    ELSE <<".">> \o relativePath

RECURSIVE ResolveAliasFrom(_, _, _)
ResolveAliasFrom(paths, i, resolvedPath) ==
    IF i > Len(paths) THEN Null
    ELSE LET absolute == paths[i].bases[1] IN
         IF IsPrefix(absolute, resolvedPath)
         THEN <<paths[i].alias>> \o SubSeq(resolvedPath, Len(absolute) + 1, Len(resolvedPath))
         ELSE ResolveAliasFrom(paths, i + 1, resolvedPath)

\* resolveAlias(paths, resolvedPath, tsconfigDir): lines 252-265
ResolveAlias(paths, f) == ResolveAliasFrom(paths, 1, StrippedPath(f))

\* moduleSpecifier.startsWith(".")
StartsWithDot(spec) == spec # <<>> /\ spec[1] \in {".", ".."}

\* aliasPrefixes.some(prefix => moduleSpecifier.startsWith(prefix))
MatchesAlias(spec) == spec # <<>> /\ spec[1] \in AliasPrefixes

RECURSIVE Normalize(_, _)
Normalize(acc, segs) ==
    IF segs = <<>> THEN acc
    ELSE IF Head(segs) = "." THEN Normalize(acc, Tail(segs))
    ELSE IF Head(segs) = ".." THEN Normalize(SubSeq(acc, 1, Len(acc) - 1), Tail(segs))
    ELSE Normalize(Append(acc, Head(segs)), Tail(segs))

\* the source file at an extensionless path: <path>.ts, else <path>/index.ts
FileAt(p) ==
    IF \E f \in Files : StrippedPath(f) = p
    THEN CHOOSE f \in Files : StrippedPath(f) = p
    ELSE IF \E f \in Files : Dir[f] = p /\ Base[f] = "index"
    THEN CHOOSE f \in Files : Dir[f] = p /\ Base[f] = "index"
    ELSE NoFile

\* importDecl.getModuleSpecifierSourceFile(): the compiler's module resolution
ModuleSpecifierSourceFile(from, spec) ==
    IF StartsWithDot(spec) THEN FileAt(Normalize(Dir[from], spec))
    ELSE IF MatchesAlias(spec)
    THEN LET i == CHOOSE j \in DOMAIN Paths : Paths[j].alias = spec[1]
             hits == {k \in DOMAIN Paths[i].bases :
                        FileAt(Paths[i].bases[k] \o Tail(spec)) # NoFile}
         IN IF hits = {} THEN NoFile
            ELSE FileAt(Paths[i].bases[CHOOSE k \in hits : \A h \in hits : k <= h]
                        \o Tail(spec))
    ELSE NoFile

----------------------------------------------------------------------------
(* What the compiler resolves an exported name to *)

NoDecl == [file |-> NoFile, name |-> NoName]

Min(S) == CHOOSE x \in S : \A y \in S : x <= y

RECURSIVE ExportedDeclaration(_, _, _)
\* declarations.getExportedDeclarations().get(name)?.[0]: the declaration an
\* exported name stands for, followed through re-exports; a declaration of
\* the module itself comes first, then its named re-exports, then export *
ExportedDeclaration(f, n, visited) ==
    LET stmts == world[f]
        own == {i \in DOMAIN stmts :
                    stmts[i].kind \in {"decl", "localExport"} /\ stmts[i].exported = n}
        named == {i \in DOMAIN stmts : stmts[i].kind = "named" /\ stmts[i].exported = n}
        star == {i \in DOMAIN stmts :
                    /\ stmts[i].kind = "star" /\ stmts[i].target # NoFile
                    /\ ExportedDeclaration(stmts[i].target, n, visited \cup {f}) # NoDecl}
    IN IF f \in visited THEN NoDecl
       ELSE IF own # {} THEN [file |-> f, name |-> n]
       ELSE IF named # {}
       THEN IF stmts[Min(named)].target = NoFile THEN NoDecl
            ELSE ExportedDeclaration(stmts[Min(named)].target, stmts[Min(named)].local,
                                     visited \cup {f})
       ELSE IF star # {}
       THEN ExportedDeclaration(stmts[Min(star)].target, n, visited \cup {f})
       ELSE NoDecl

\* declarations.getDefaultExportSymbol()?.getDeclarations()?.[0].getSourceFile():
\* the module's own default export statement, a re-exported default included
DefaultDeclarationFile(f) ==
    IF \E i \in DOMAIN world[f] : world[f][i].exported = "default" THEN f ELSE NoFile

----------------------------------------------------------------------------
(* Import declarations *)

\* one named import: alias is NoName when the clause has no `as`
Binding(n, al) == [name |-> n, alias |-> al, typeOnly |-> FALSE]
\* a named import with the `type` modifier: import { type n as al }
TypeBinding(n, al) == [name |-> n, alias |-> al, typeOnly |-> TRUE]
\* import def, { named } from spec: def is NoName without a default import
ImportDecl(spec, def, named) == [spec |-> spec, def |-> def, named |-> named]

\* alias || name
UsedName(b) == IF b.alias # NoName THEN b.alias ELSE b.name

\* the local names an import declaration binds
BoundBy(imp) ==
    (IF imp.def # NoName THEN {imp.def} ELSE {})
    \cup {UsedName(imp.named[i]) : i \in DOMAIN imp.named}

BoundNames(imps) == UNION {BoundBy(imps[i]) : i \in DOMAIN imps}

----------------------------------------------------------------------------
(* processImportDeclaration: lines 468-579 *)

\* rewrittenBySpecifier.has(resolved)
HasSpecifier(rbs, spec) == \E i \in DOMAIN rbs : rbs[i].specifier = spec

\* rewrittenBySpecifier.get(resolved).named.push([originalExportName, usedName])
PushNamed(rbs, spec, pair) ==
    LET r == IF HasSpecifier(rbs, spec) THEN rbs
             ELSE Append(rbs, [specifier |-> spec, named |-> <<>>, defaultImport |-> NoName])
    IN [i \in DOMAIN r |->
            IF r[i].specifier = spec THEN [r[i] EXCEPT !.named = Append(@, pair)] ELSE r[i]]

\* the specifier computed for the file a symbol is declared in: lines 499-503
ResolvedSpecifier(ctx, resolvedFile) ==
    IF ctx.isAliasImport THEN ResolveAlias(Paths, resolvedFile)
    ELSE GetRelativePath(ctx.sourceFile, resolvedFile)

\* the name a moved binding is imported under: lines 538-543
OriginalExportName(reExportMap, name, resolvedFile) ==
    IF name \in DOMAIN reExportMap /\ reExportMap[name].resolvedPath = resolvedFile
    THEN reExportMap[name].localName
    ELSE name

\* the default import: lines 491-511
DefaultImportStep(ctx) ==
    LET none == [rbs |-> <<>>, kept |-> <<>>, changed |-> FALSE, updated |-> 0]
        resolvedFile == DefaultDeclarationFile(ctx.declarations)
    IN IF ctx.importDecl.def = NoName \/ resolvedFile = NoFile THEN none
       ELSE IF ResolvedSpecifier(ctx, resolvedFile) # ctx.importDecl.spec
       THEN [rbs |-> <<[specifier |-> ResolvedSpecifier(ctx, resolvedFile), named |-> <<>>,
                        defaultImport |-> ctx.importDecl.def]>>,
             kept |-> <<>>, changed |-> TRUE, updated |-> 1]
       ELSE none

\* one named import: lines 514-557
NamedImportStep(ctx, acc, b) ==
    LET decl == ExportedDeclaration(ctx.declarations, b.name, {})
        resolved == ResolvedSpecifier(ctx, decl.file)
        pair == [name |-> OriginalExportName(ctx.reExportMap, b.name, decl.file),
                 alias |-> UsedName(b)]
    IN IF decl = NoDecl THEN [acc EXCEPT !.kept = Append(@, b)]
       ELSE IF resolved # ctx.importDecl.spec
       THEN [acc EXCEPT !.rbs = PushNamed(@, resolved, pair),
                        !.changed = TRUE, !.updated = @ + 1]
       ELSE [acc EXCEPT !.kept = Append(@, b)]

RECURSIVE NamedImportsFrom(_, _, _)
\* importDecl.getNamedImports().forEach(...) from clause i on
NamedImportsFrom(ctx, acc, i) ==
    IF i > Len(ctx.importDecl.named) THEN acc
    ELSE NamedImportsFrom(ctx, NamedImportStep(ctx, acc, ctx.importDecl.named[i]), i + 1)

\* ResidualImport with every kept binding written without its alias
ResidualImportNoAlias(ctx, kept) ==
    ImportDecl(ctx.importDecl.spec, NoName,
               [i \in DOMAIN kept |-> Binding(kept[i].name, NoName)])

\* the import of the original specifier that keeps the kept bindings,
\* added to the source file at once: lines 559-568
ResidualImport(ctx, kept) ==
    ImportDecl(ctx.importDecl.spec, NoName,
               [i \in DOMAIN kept |-> Binding(kept[i].name, kept[i].alias)])

\* processImportDeclaration with `changed` set whatever the bindings do
ProcessImportDeclarationAlways(ctx) ==
    LET acc == NamedImportsFrom(ctx, DefaultImportStep(ctx), 1) IN
    [changed |-> TRUE,
     rewrittenImports |-> acc.rbs,
     added |-> IF acc.kept # <<>> THEN <<ResidualImport(ctx, acc.kept)>> ELSE <<>>,
     updated |-> acc.updated]

ProcessImportDeclaration(ctx) ==
    LET acc == NamedImportsFrom(ctx, DefaultImportStep(ctx), 1) IN
    [changed |-> acc.changed,
     rewrittenImports |-> IF acc.changed THEN acc.rbs ELSE <<>>,
     added |-> IF acc.changed /\ acc.kept # <<>>
               THEN <<ResidualImport(ctx, acc.kept)>> ELSE <<>>,
     updated |-> acc.updated]

----------------------------------------------------------------------------
(* rewriteImportsInFile: lines 343-447 *)

\* String(specifier): the key of importGroups for a specifier, null included
GroupKey(spec) == IF spec = Null THEN <<"null">> ELSE spec

\* importGroups[specifier].named.set(name, alias)
NamedSet(named, pair) ==
    IF \E i \in DOMAIN named : named[i].name = pair.name
    THEN [i \in DOMAIN named |-> IF named[i].name = pair.name THEN pair ELSE named[i]]
    ELSE Append(named, pair)

RECURSIVE NamedSetAll(_, _, _)
NamedSetAll(named, pairs, i) ==
    IF i > Len(pairs) THEN named
    ELSE NamedSetAll(NamedSet(named, pairs[i]), pairs, i + 1)

\* AddToGroups with a new group put in front of the groups already there
AddToGroupsInFront(groups, rw) ==
    LET key == GroupKey(rw.specifier)
        g == IF \E i \in DOMAIN groups : groups[i].specifier = key THEN groups
             ELSE <<[specifier |-> key, named |-> <<>>, default |-> NoName]>> \o groups
    IN [i \in DOMAIN g |->
            IF g[i].specifier = key
            THEN [g[i] EXCEPT !.default = IF rw.defaultImport # NoName
                                          THEN rw.defaultImport ELSE @,
                              !.named = NamedSetAll(@, rw.named, 1)]
            ELSE g[i]]

\* one iteration of the loop of lines 405-415
AddToGroups(groups, rw) ==
    LET key == GroupKey(rw.specifier)
        g == IF \E i \in DOMAIN groups : groups[i].specifier = key THEN groups
             ELSE Append(groups, [specifier |-> key, named |-> <<>>, default |-> NoName])
    IN [i \in DOMAIN g |->
            IF g[i].specifier = key
            THEN [g[i] EXCEPT !.default = IF rw.defaultImport # NoName
                                          THEN rw.defaultImport ELSE @,
                              !.named = NamedSetAll(@, rw.named, 1)]
            ELSE g[i]]

RECURSIVE AddAllToGroups(_, _, _)
AddAllToGroups(groups, rws, i) ==
    IF i > Len(rws) THEN groups
    ELSE AddAllToGroups(AddToGroups(groups, rws[i]), rws, i + 1)

\* not local: line 356
IsExternal(spec) == ~StartsWithDot(spec) /\ ~MatchesAlias(spec)

\* declarations.getExportDeclarations().length > 0: line 369
IsBarrel(f) == Len(ExportDeclarations(f)) > 0

\* the import declaration is passed on to processImportDeclaration: lines 356-376
IsBarrelImport(f, imp) ==
    /\ ~IsExternal(imp.spec)
    /\ ModuleSpecifierSourceFile(f, imp.spec) # NoFile
    /\ IsBarrel(ModuleSpecifierSourceFile(f, imp.spec))

\* one import declaration of the file: the body of the forEach of line 350
ImportStep(f, acc, i) ==
    LET imp == acc.imports[i]
        declarations == ModuleSpecifierSourceFile(f, imp.spec)
        built == GetReExportMap(declarations, acc.cache)
        res == ProcessImportDeclaration(
                    [importDecl |-> imp, declarations |-> declarations, sourceFile |-> f,
                     reExportMap |-> built.map,
                     isAliasImport |-> ~StartsWithDot(imp.spec) /\ MatchesAlias(imp.spec)])
    IN IF ~IsBarrelImport(f, imp) THEN acc
       ELSE IF ~res.changed THEN [acc EXCEPT !.cache = built.cache]
       ELSE [acc EXCEPT !.cache = built.cache,
                        !.imports = @ \o res.added,
                        !.remove = @ \cup {i},
                        !.groups = AddAllToGroups(@, res.rewrittenImports, 1),
                        !.updated = @ + res.updated,
                        !.changed = TRUE]

RECURSIVE ImportsFrom(_, _, _, _)
\* sourceFile.getImportDeclarations().forEach(...): the declarations the file
\* had when the loop started, n of them
ImportsFrom(f, acc, i, n) ==
    IF i > n THEN acc ELSE ImportsFrom(f, ImportStep(f, acc, i), i + 1, n)

RewriteImportsInFile(f, imports, cache) ==
    ImportsFrom(f, [imports |-> imports, cache |-> cache, remove |-> {}, groups |-> <<>>,
                    updated |-> 0, changed |-> FALSE], 1, Len(imports))

\* sourceFile.addImportDeclaration for one group: lines 427-434
GroupImport(g) ==
    ImportDecl(g.specifier, g.default,
               [i \in DOMAIN g.named |->
                    Binding(g.named[i].name,
                            IF g.named[i].name = g.named[i].alias THEN NoName
                            ELSE g.named[i].alias)])

\* decl.remove() for every declaration of importsToRemove: line 425
RemoveImports(imports, remove) ==
    LET keep(i) == i \notin remove
        F[i \in 0..Len(imports)] ==
            IF i = 0 THEN <<>>
            ELSE IF keep(i) THEN Append(F[i - 1], imports[i]) ELSE F[i - 1]
    IN F[Len(imports)]

\* the imports of the file once the write action has run: lines 425-435
WrittenImports(imports, w) ==
    RemoveImports(imports, w.remove) \o [i \in DOMAIN w.groups |-> GroupImport(w.groups[i])]

----------------------------------------------------------------------------
(* runBarrelBreaker: lines 118-229.  Every source file is analysed, then   *)
(* the write actions run.  Only the importing files have import            *)
(* declarations, so only they are queued for analysis.                     *)

SourceFiles == <<"main">>

\* updatedImportText of printImportDiff, one import per group: lines 588-601
UpdatedImportText(groups) ==
    [i \in DOMAIN groups |->
        ImportDecl(groups[i].specifier, groups[i].default,
                   [k \in DOMAIN groups[i].named |->
                        Binding(groups[i].named[k].name,
                                IF groups[i].named[k].name = groups[i].named[k].alias
                                THEN NoName ELSE groups[i].named[k].alias)])]

\* rewriteImportsInFile for the next source file: lines 193-205
Analyse ==
    /\ queue # <<>>
    /\ LET f == Head(queue)
           r == RewriteImportsInFile(f, ast[f], reExportCache)
       IN /\ ast' = [ast EXCEPT ![f] = r.imports]
          /\ reExportCache' = r.cache
          /\ bindingsUpdated' = bindingsUpdated + r.updated
          /\ writes' = IF r.changed
                       THEN Append(writes, [file |-> f, remove |-> r.remove,
                                            groups |-> r.groups])
                       ELSE writes
    /\ queue' = Tail(queue)
    /\ UNCHANGED <<world, stack, seen, result, calls, walked, disk, run, original,
                   writesRun, summary, shown, purgeVars, isDryRun, aliasCall, sigint, pathsConfig>>

\* a write action in write mode: lines 424-435, 438-440
SaveWrite ==
    /\ queue = <<>> /\ writes # <<>> /\ ~isDryRun
    /\ LET w == Head(writes) IN
        /\ ast' = [ast EXCEPT ![w.file] = WrittenImports(@, w)]
        /\ disk' = [disk EXCEPT ![w.file] = WrittenImports(ast[w.file], w)]
    /\ writes' = Tail(writes)
    /\ writesRun' = writesRun + 1
    /\ UNCHANGED <<world, builderVars, queue, bindingsUpdated, run, original, summary, shown,
                   purgeVars, isDryRun, aliasCall, sigint, pathsConfig>>

\* a write action of a dry run that saves the file all the same
DiffWriteSaving ==
    /\ queue = <<>> /\ writes # <<>> /\ isDryRun
    /\ LET w == Head(writes) IN
        /\ ast' = [ast EXCEPT ![w.file] = WrittenImports(@, w)]
        /\ disk' = [disk EXCEPT ![w.file] = WrittenImports(ast[w.file], w)]
    /\ writes' = Tail(writes)
    /\ writesRun' = writesRun + 1
    /\ shown' = MapSet(shown, Head(writes).file, UpdatedImportText(Head(writes).groups))
    /\ UNCHANGED <<world, builderVars, queue, bindingsUpdated, run, original, summary,
                   purgeVars, isDryRun, aliasCall, sigint, pathsConfig>>

\* a write action in a dry run: lines 424-437
DiffWrite ==
    /\ queue = <<>> /\ writes # <<>> /\ isDryRun
    /\ LET w == Head(writes) IN
        ast' = [ast EXCEPT ![w.file] = WrittenImports(@, w)]
    /\ writes' = Tail(writes)
    /\ writesRun' = writesRun + 1
    /\ shown' = MapSet(shown, Head(writes).file, UpdatedImportText(Head(writes).groups))
    /\ UNCHANGED <<world, builderVars, disk, queue, bindingsUpdated, run, original, summary,
                   purgeVars, isDryRun, aliasCall, sigint, pathsConfig>>

\* the tool is started again, in write mode, on the tree the first run left
SecondRun ==
    /\ queue = <<>> /\ writes = <<>> /\ run = 1 /\ ~isDryRun
    /\ run' = 2
    /\ reExportCache' = EmptyMap
    /\ bindingsUpdated' = 0
    /\ ast' = disk
    /\ queue' = SourceFiles
    /\ writesRun' = 0
    /\ summary' = NoSummary
    /\ UNCHANGED <<world, stack, seen, result, calls, walked, disk, writes, original,
                   shown, purgeVars, isDryRun, aliasCall, sigint, pathsConfig>>

\* the summary section, logged when the write actions have run: lines 222-228
Summarise ==
    /\ queue = <<>> /\ writes = <<>> /\ summary = NoSummary
    /\ summary' = [files |-> Len(SourceFiles), imports |-> writesRun,
                   bindings |-> bindingsUpdated]
    /\ UNCHANGED <<world, builderVars, ast, disk, queue, writes, bindingsUpdated, run,
                   original, writesRun, shown, purgeVars, isDryRun, aliasCall, sigint, pathsConfig>>

----------------------------------------------------------------------------
(* Projects the rewriter is run on *)

Spec_m == <<".", "m">>
Spec_mIndex == <<".", "m", "index">>
Spec_mB == <<".", "m", "b">>
Spec_aliasM == <<"@m">>
Spec_aliasI == <<"@i">>
Spec_pkg == <<"pkg">>
Spec_gone == <<".", "gone">>

\* re-export graphs: index.ts re-exports through b.ts and c.ts, which both
\* declare b and may re-export in turn
DeepA == {StarStmt("B"), StarStmt("C"), NamedStmt("a", "a", "B"),
          NamedStmt("b", "a", "C"), NamedStmt("b", "b", "C")}
DeepB == {StarStmt("A"), StarStmt("C"), NamedStmt("b", "a", "C"), NamedStmt("a", "a", "C")}
DeepC == {StarStmt("B"), NamedStmt("b", "a", "B"), NamedStmt("a", "a", "A")}

IsDeepWorld(w) ==
    \E n \in 1..(MaxDecls - 1) :
        \E x \in [1..n -> DeepA],
           y \in {<<>>} \cup {<<s>> : s \in DeepB},
           z \in {<<>>} \cup {<<s>> : s \in DeepC} :
            w = [A |-> x, B |-> <<DeclStmt("b")>> \o y, C |-> <<DeclStmt("b")>> \o z]

DeepImports ==
    {<<ImportDecl(sp, NoName, <<b>>)>> :
        sp \in {Spec_m, Spec_aliasM},
        b \in {Binding("a", NoName), Binding("b", NoName), Binding("a", "x")}}

\* a few fixed projects for the import declarations of every form
Leaf == <<DeclStmt("b")>>
WideWorlds ==
    {[A |-> <<DefaultStmt, NamedStmt("b", "a", "B"), NamedStmt("b", "b", "B")>>,
      B |-> Leaf, C |-> Leaf],
     [A |-> <<DeclStmt("a"), NamedStmt("b", "b", "C")>>, B |-> Leaf, C |-> Leaf],
     [A |-> <<DefaultStmt, StarStmt("B")>>, B |-> Leaf, C |-> Leaf],
     [A |-> <<LocalExportStmt("a")>>, B |-> Leaf, C |-> Leaf],
     [A |-> <<DeclStmt("a")>>, B |-> Leaf \o <<NamedStmt("b", "a", "C")>>, C |-> Leaf]}

WideSpecs == {Spec_m, Spec_mIndex, Spec_mB, Spec_aliasM, Spec_pkg, Spec_gone}
WideBindings == {Binding("a", NoName), Binding("b", NoName), Binding("a", "x"),
                 Binding("a", "y"), TypeBinding("b", "t")}
\* the import declarations that may follow the first one
LaterImports ==
    {ImportDecl(Spec_mIndex, NoName, <<Binding("b", "z")>>),
     ImportDecl(Spec_mB, NoName, <<Binding("b", "z")>>),
     ImportDecl(Spec_pkg, NoName, <<Binding("a", "z")>>),
     ImportDecl(Spec_aliasM, NoName, <<Binding("a", "z")>>),
     ImportDecl(Spec_m, "e", <<>>)}

\* a module binds each local name once
DistinctLocals(imps) ==
    /\ \A i, j \in DOMAIN imps : i # j => BoundBy(imps[i]) \cap BoundBy(imps[j]) = {}
    /\ \A i \in DOMAIN imps :
        /\ \A j, k \in DOMAIN imps[i].named :
            j # k => UsedName(imps[i].named[j]) # UsedName(imps[i].named[k])
        /\ BoundBy(imps[i]) # {}

InitRewrite ==
    /\ \/ /\ IsDeepWorld(world)
          /\ \E imps \in DeepImports : ast = [f \in Importers |-> imps]
       \/ /\ world \in WideWorlds
          /\ \E k \in 0..MaxNamed, m \in 0..(MaxImports - 1) :
              \E sp \in WideSpecs, def \in {NoName, "d"},
                 named \in [1..k -> WideBindings], later \in [1..m -> LaterImports] :
                  /\ DistinctLocals(<<ImportDecl(sp, def, named)>> \o later)
                  /\ ast = [f \in Importers |-> <<ImportDecl(sp, def, named)>> \o later]
    /\ disk = ast /\ original = ast
    /\ queue = SourceFiles /\ writes = <<>>
    /\ bindingsUpdated = 0
    /\ isDryRun \in BOOLEAN
    /\ run = 1
    /\ reExportCache = EmptyMap
    /\ stack = <<>> /\ seen = {} /\ result = EmptyMap /\ calls = 0
    /\ walked = [f \in Modules |-> 0]
    /\ fsFiles = EmptyMap /\ purgeQueue = <<>> /\ pureBarrelFiles = <<>>
    /\ impureBarrelFiles = <<>> /\ purgePos = 0 /\ log = <<>>
    /\ writesRun = 0 /\ summary = NoSummary /\ aliasCall = NoCall
    /\ sigint = "none" /\ pathsConfig = PathsM
    /\ shown = EmptyMap

Next ==
    \/ Analyse
    \/ SaveWrite
    \/ DiffWrite
    \/ SecondRun
    \/ Summarise

Spec == InitRewrite /\ [][Next]_vars

----------------------------------------------------------------------------
(* purge: isPureBarrelFile and purgeBarrels *)

\* statements of a scanned file
MaxStmts == 2

\* stmt.getKindName() === "ExportDeclaration"
IsExportDeclaration(stmt) == stmt.kind \in ExportKinds

\* !!stmt.getModuleSpecifierValue()
HasModuleSpecifierValue(stmt) == stmt.target # NoFile

\* isPureBarrelFile without the test of line 374
IsPureBarrelFileNoLengthTest(statements) ==
    \A i \in DOMAIN statements :
        IF IsExportDeclaration(statements[i]) THEN HasModuleSpecifierValue(statements[i])
        ELSE FALSE

\* isPureBarrelFile with some() for every()
IsPureBarrelFileSome(statements) ==
    \E i \in DOMAIN statements :
        IF IsExportDeclaration(statements[i]) THEN HasModuleSpecifierValue(statements[i])
        ELSE FALSE

RECURSIVE Every(_, _)
\* statements.every(...) from statement i on: lines 375-380
Every(statements, i) ==
    IF i > Len(statements) THEN TRUE
    ELSE IF IsExportDeclaration(statements[i])
         THEN HasModuleSpecifierValue(statements[i]) /\ Every(statements, i + 1)
         ELSE FALSE

\* isPureBarrelFile(sourceFile), on sourceFile.getStatements()
IsPureBarrelFile(statements) ==
    IF Len(statements) = 0 THEN FALSE ELSE Every(statements, 1)

\* the files project.addSourceFilesAtPaths finds under the directory
ScannedFiles == <<"A", "B", "C">>

ScanDone == purgeQueue = <<>> /\ fsFiles # EmptyMap
PureHandled == purgePos >= Len(pureBarrelFiles)
AllHandled == purgePos >= Len(pureBarrelFiles) + Len(impureBarrelFiles)

\* one iteration of sourceFiles.forEach: lines 402-411
Scan ==
    /\ purgeQueue # <<>>
    /\ LET sourceFile == Head(purgeQueue) IN
        IF Len(ExportDeclarations(sourceFile)) > 0
        THEN IF IsPureBarrelFile(world[sourceFile])
             THEN /\ pureBarrelFiles' = Append(pureBarrelFiles, sourceFile)
                  /\ UNCHANGED impureBarrelFiles
             ELSE /\ impureBarrelFiles' = Append(impureBarrelFiles, sourceFile)
                  /\ UNCHANGED pureBarrelFiles
        ELSE UNCHANGED <<pureBarrelFiles, impureBarrelFiles>>
    /\ purgeQueue' = Tail(purgeQueue)
    /\ UNCHANGED <<world, builderVars, rewriteVars, fsFiles, purgePos, log, isDryRun, aliasCall, sigint, pathsConfig>>

\* one iteration of the loop of lines 418-420
ListPure ==
    /\ ScanDone /\ isDryRun /\ ~PureHandled
    /\ log' = Append(log, <<"would delete", pureBarrelFiles[purgePos + 1]>>)
    /\ purgePos' = purgePos + 1
    /\ UNCHANGED <<world, builderVars, rewriteVars, fsFiles, purgeQueue,
                   pureBarrelFiles, impureBarrelFiles, isDryRun, aliasCall, sigint, pathsConfig>>

\* one iteration of the loop of lines 425-429
Unlink ==
    /\ ScanDone /\ ~isDryRun /\ ~PureHandled
    /\ LET filePath == pureBarrelFiles[purgePos + 1] IN
        /\ filePath \in DOMAIN fsFiles
        /\ fsFiles' = [f \in DOMAIN fsFiles \ {filePath} |-> fsFiles[f]]
        /\ log' = Append(log, <<"deleted", filePath>>)
    /\ purgePos' = purgePos + 1
    /\ UNCHANGED <<world, builderVars, rewriteVars, purgeQueue,
                   pureBarrelFiles, impureBarrelFiles, isDryRun, aliasCall, sigint, pathsConfig>>

\* one iteration of the loops of lines 421-423 and 430-432
WarnImpure ==
    /\ ScanDone /\ PureHandled /\ ~AllHandled
    /\ log' = Append(log, <<"warning", impureBarrelFiles[purgePos - Len(pureBarrelFiles) + 1]>>)
    /\ purgePos' = purgePos + 1
    /\ UNCHANGED <<world, builderVars, rewriteVars, fsFiles, purgeQueue,
                   pureBarrelFiles, impureBarrelFiles, isDryRun, aliasCall, sigint, pathsConfig>>

\* what a scanned file may hold
PurgeStmts == {StarStmt("B"), LocalExportStmt("a"), DeclStmt("a")}

InitPurge ==
    /\ \E n \in [Modules -> 0..MaxStmts] :
        \E x \in [1..n["A"] -> PurgeStmts], y \in [1..n["B"] -> PurgeStmts],
           z \in [1..n["C"] -> PurgeStmts] :
            world = [A |-> x, B |-> y, C |-> z]
    /\ fsFiles = [f \in Files |-> IF f \in Modules THEN world[f] ELSE <<>>]
    /\ purgeQueue = ScannedFiles
    /\ pureBarrelFiles = <<>> /\ impureBarrelFiles = <<>>
    /\ purgePos = 0 /\ log = <<>>
    /\ isDryRun \in BOOLEAN
    /\ reExportCache = EmptyMap
    /\ stack = <<>> /\ seen = {} /\ result = EmptyMap /\ calls = 0
    /\ walked = [f \in Modules |-> 0]
    /\ ast = EmptyMap /\ disk = EmptyMap /\ original = EmptyMap
    /\ queue = <<>> /\ writes = <<>>
    /\ bindingsUpdated = 0
    /\ run = 1
    /\ writesRun = 0 /\ summary = NoSummary /\ aliasCall = NoCall
    /\ sigint = "none" /\ pathsConfig = PathsM
    /\ shown = EmptyMap

NextPurge ==
    \/ Scan
    \/ ListPure
    \/ Unlink
    \/ WarnImpure

SpecPurge == InitPurge /\ [][NextPurge]_vars

----------------------------------------------------------------------------
(* The two commands over one tree: the rewriter, then purge *)

\* index.ts holds up to MaxStmts statements, b.ts and c.ts up to one
InitTree ==
    /\ \E n \in 0..MaxStmts :
        \E x \in [1..n -> PurgeStmts],
           y \in {<<>>} \cup {<<st>> : st \in PurgeStmts},
           z \in {<<>>} \cup {<<st>> : st \in PurgeStmts} :
            world = [A |-> x, B |-> y, C |-> z]
    /\ \E imps \in DeepImports : ast = [f \in Importers |-> imps]
    /\ disk = ast /\ original = ast
    /\ queue = SourceFiles /\ writes = <<>>
    /\ bindingsUpdated = 0
    /\ isDryRun \in BOOLEAN
    /\ run = 1
    /\ writesRun = 0 /\ summary = NoSummary /\ aliasCall = NoCall
    /\ sigint = "none" /\ pathsConfig = PathsM
    /\ shown = EmptyMap
    /\ reExportCache = EmptyMap
    /\ stack = <<>> /\ seen = {} /\ result = EmptyMap /\ calls = 0
    /\ walked = [f \in Modules |-> 0]
    /\ fsFiles = [f \in Files |-> IF f \in Modules THEN world[f] ELSE <<>>]
    /\ purgeQueue = ScannedFiles
    /\ pureBarrelFiles = <<>> /\ impureBarrelFiles = <<>>
    /\ purgePos = 0 /\ log = <<>>

\* purge is started once the rewriter is through
PurgeAfterRewrite == queue = <<>> /\ writes = <<>> /\ NextPurge

NextBoth ==
    \/ Analyse
    \/ SaveWrite
    \/ DiffWrite
    \/ PurgeAfterRewrite

SpecBoth == InitTree /\ [][NextBoth]_vars

----------------------------------------------------------------------------
(* resolveAlias on its own *)

\* the keys of a paths table, "/*" removed
AliasNames == {"@m", "@n"}
\* directories a base path may name, resolved against tsconfigDir
BaseDirs == {<<"r", "m">>, <<"r", "n">>, <<"r", "lib">>}
\* paths of defining modules, extension removed
DefiningPaths == {<<"r", "m", "b">>, <<"r", "n", "c">>, <<"r", "lib", "d">>, <<"q", "x">>}

\* a call with a paths table of up to MaxAliases keys, in the order of
\* Object.keys, each with up to MaxBases base paths
InitAlias ==
    /\ \E n \in 1..MaxAliases :
        \E names \in [1..n -> AliasNames] :
            /\ \A i, j \in 1..n : i # j => names[i] # names[j]
            /\ \E counts \in [1..n -> 1..MaxBases] :
                \E b1 \in [1..counts[1] -> BaseDirs],
                   b2 \in [1..(IF n > 1 THEN counts[2] ELSE 0) -> BaseDirs],
                   p \in DefiningPaths :
                    aliasCall = [paths |-> [i \in 1..n |->
                                                [alias |-> names[i],
                                                 bases |-> IF i = 1 THEN b1 ELSE b2]],
                                 resolvedPath |-> p, done |-> FALSE, result |-> Null]
    /\ world = [f \in Modules |-> <<>>]
    /\ reExportCache = EmptyMap
    /\ stack = <<>> /\ seen = {} /\ result = EmptyMap /\ calls = 0
    /\ walked = [f \in Modules |-> 0]
    /\ ast = EmptyMap /\ disk = EmptyMap /\ original = EmptyMap
    /\ queue = <<>> /\ writes = <<>>
    /\ bindingsUpdated = 0
    /\ isDryRun = FALSE
    /\ run = 1
    /\ writesRun = 0 /\ summary = NoSummary /\ sigint = "none"
    /\ pathsConfig = PathsM
    /\ shown = EmptyMap
    /\ fsFiles = EmptyMap /\ purgeQueue = <<>> /\ pureBarrelFiles = <<>>
    /\ impureBarrelFiles = <<>> /\ purgePos = 0 /\ log = <<>>

\* resolveAlias(paths, resolvedPath, tsconfigDir): lines 252-265
ResolveAliasCall ==
    /\ ~aliasCall.done
    /\ aliasCall' = [aliasCall EXCEPT
                        !.done = TRUE,
                        !.result = ResolveAliasFrom(aliasCall.paths, 1, aliasCall.resolvedPath)]
    /\ UNCHANGED <<world, builderVars, rewriteVars, purgeVars, isDryRun, sigint, pathsConfig>>

NextAlias == ResolveAliasCall

SpecAlias == InitAlias /\ [][NextAlias]_vars

----------------------------------------------------------------------------
(* runBarrelBreaker over two importing files, with the SIGINT signal *)

\* the import declarations of one of the two files
ManyImports ==
    {<<ImportDecl(sp, NoName, <<b>>)>> :
        sp \in {Spec_m, Spec_mB, Spec_aliasI},
        b \in {Binding("a", NoName), Binding("b", NoName)}}

\* re-export graphs between index.ts and b.ts, cycles among them
IsManyWorld(w) ==
    \E n \in 1..(MaxDecls - 1) :
        \E x \in [1..n -> DeepA],
           y \in {<<>>} \cup {<<s>> : s \in DeepB} :
            w = [A |-> x, B |-> <<DeclStmt("b")>> \o y, C |-> <<DeclStmt("b")>>]

\* the source files are analysed in the order the project lists them
InitMany ==
    /\ IsManyWorld(world)
    /\ \E x \in ManyImports, y \in ManyImports : ast = [main |-> x, other |-> y]
    /\ disk = ast /\ original = ast
    /\ queue \in {<<"main", "other">>, <<"other", "main">>}
    /\ writes = <<>>
    /\ bindingsUpdated = 0
    /\ isDryRun \in BOOLEAN
    /\ run = 1
    /\ writesRun = 0 /\ summary = NoSummary /\ aliasCall = NoCall
    /\ sigint = "none" /\ pathsConfig \in {PathsM, PathsIndex}
    /\ shown = EmptyMap
    /\ reExportCache = EmptyMap
    /\ stack = <<>> /\ seen = {} /\ result = EmptyMap /\ calls = 0
    /\ walked = [f \in Modules |-> 0]
    /\ fsFiles = EmptyMap /\ purgeQueue = <<>> /\ pureBarrelFiles = <<>>
    /\ impureBarrelFiles = <<>> /\ purgePos = 0 /\ log = <<>>

\* the signal arrives while runBarrelBreaker is in its loops, one source
\* file at least being analysed already
Interrupt ==
    /\ sigint = "none"
    /\ \/ queue # <<>> /\ Len(queue) < Cardinality(DOMAIN ast)
       \/ writes # <<>>
    /\ sigint' = "pending"
    /\ UNCHANGED <<world, builderVars, rewriteVars, purgeVars, isDryRun, aliasCall,
                   pathsConfig>>

\* the listeners of lines 45-48 and of bin/index.js 2-7 are called from the
\* event loop, which gets control when the body of runBarrelBreaker (no
\* await in it) has run to its end; the process ends there
HandleSigint ==
    /\ sigint = "pending"
    /\ queue = <<>> /\ writes = <<>>
    /\ sigint' = "handled"
    /\ UNCHANGED <<world, builderVars, rewriteVars, purgeVars, isDryRun, aliasCall,
                   pathsConfig>>

NextMany ==
    \/ Analyse
    \/ SaveWrite
    \/ DiffWrite
    \/ Interrupt
    \/ HandleSigint

SpecMany == InitMany /\ [][NextMany]_vars

----------------------------------------------------------------------------
(* Properties of the export map builder *)

RECURSIVE SumLeft(_)
\* declarations still to walk, plus the return, of every frame of the chain
SumLeft(st) ==
    IF st = <<>> THEN 0
    ELSE Len(ExportDeclarations(Head(st).file)) - Head(st).idx + 2 + SumLeft(Tail(st))

\* variant of the recursion: modules not yet entered weigh more than any frame
Rank == Cardinality(Modules \ seen) * (MaxDecls + 2) + SumLeft(stack)

\* C4: getReExportMapRecursive terminates on every re-export graph, cycles
\* of any length and self re-exports included: every step of a running call
\* decreases the non-negative variant Rank, a running call can always take a
\* step (no error, no stuck state), and a module that is already being
\* visited contributes an empty map to the branch that reached it again.
CycleSafeTermination ==
    /\ [](Rank >= 0)
    /\ [](Running => ENABLED BuilderStep)
    /\ [][BuilderStep => Rank' < Rank]_vars
    /\ [][NamespaceSeen => stack'[Len(stack)].map = Top.map]_vars

ThreeCycle ==
    /\ world["A"] = <<StarStmt("B")>>
    /\ world["B"] = <<StarStmt("C")>>
    /\ world["C"] = <<StarStmt("A")>>

\* witness of C4: a call on a cycle of length three has returned
CycleOfThreeBuilt ==
    ThreeCycle /\ ~Running /\ calls = 1 /\ DOMAIN reExportCache = Modules

RECURSIVE ResolvableNames(_, _)
\* the names a module re-exports, following export * into every module that
\* is not already on the path (no module of a cycle is traversed twice)
ResolvableNames(f, onPath) ==
    LET decls == ExportDeclarations(f) IN
    UNION {IF decls[i].target = NoFile THEN {}
           ELSE IF decls[i].kind = "named" THEN {decls[i].exported}
           ELSE IF decls[i].target \in onPath \cup {f} THEN {}
           ELSE ResolvableNames(decls[i].target, onPath \cup {f}) : i \in DOMAIN decls}

StarEdge(f, g) ==
    \E i \in DOMAIN world[f] : world[f][i].kind = "star" /\ world[f][i].target = g

TwoCycle(f, g) == f # g /\ StarEdge(f, g) /\ StarEdge(g, f)

\* C5: when A re-exports from B and B from A, the map obtained for either
\* side holds exactly the names resolvable without traversing the cycle
\* twice, whichever side was built first.
CycleContentExact ==
    ~Running =>
        \A f \in DOMAIN reExportCache :
            (\E g \in Modules : TwoCycle(f, g)) =>
                DOMAIN reExportCache[f] = ResolvableNames(f, {})

\* C6: no entry of an export map names, as the defining module of a symbol,
\* a module that merely re-exports that symbol.
EntriesFlattened ==
    \A f \in DOMAIN reExportCache : \A n \in DOMAIN reExportCache[f] :
        reExportCache[f][n].localName \notin
            ResolvableNames(reExportCache[f][n].resolvedPath, {})

\* C7: a stored export map is returned as it is by every later call, the
\* module's export declarations are walked at most once in a run, and a
\* stored map is never added to, removed or changed.
MemoizedOnce ==
    /\ [](\A f \in Modules : walked[f] <= 1)
    /\ [][\A f \in DOMAIN reExportCache :
            f \in DOMAIN reExportCache' /\ reExportCache'[f] = reExportCache[f]]_vars
    /\ [][\A f \in DOMAIN reExportCache :
            (calls' = calls + 1 /\ stack' # <<>>) => stack'[1].file # f]_vars
    /\ [][(calls' = calls + 1 /\ stack' = <<>>)
            => (result' \in {reExportCache[g] : g \in DOMAIN reExportCache}
                /\ walked' = walked)]_vars

\* witness of C7: the second call of the run was answered from the cache
SecondCallFromCache ==
    /\ ~Running /\ calls = 2
    /\ \E f \in Modules :
        /\ walked = [g \in Modules |-> IF g = f THEN 1 ELSE 0]
        /\ DOMAIN reExportCache = {f}
        /\ reExportCache[f] # EmptyMap
        /\ result = reExportCache[f]

\* what one export statement puts into the map of the file it stands in:
\* nothing when its target does not resolve or is still being walked, one
\* entry for a named re-export, the target's map for a namespace re-export
Contribution(st) ==
    IF st.target = NoFile THEN EmptyMap
    ELSE IF st.kind = "named"
    THEN MapSet(EmptyMap, st.exported, [localName |-> st.local, resolvedPath |-> st.target])
    ELSE IF st.target \in DOMAIN reExportCache THEN reExportCache[st.target]
    ELSE EmptyMap

Max(S) == CHOOSE x \in S : \A y \in S : x >= y

\* the statements among the first k of file f that produce exported name n
Writers(f, k, n) ==
    {i \in 1..k : n \in DOMAIN Contribution(ExportDeclarations(f)[i])}

\* C18: at every point of a walk, the map built so far for a file holds
\* exactly the names produced by the statements already processed, and the
\* entry of each name is the one produced by the last of those statements
\* in file order.
LastWriterWins ==
    \A p \in DOMAIN stack :
        LET fr == stack[p]
            k == fr.idx - 1
            produced == {n \in Names : Writers(fr.file, k, n) # {}}
        IN /\ DOMAIN fr.map = produced
           /\ \A n \in produced :
                fr.map[n] =
                    Contribution(ExportDeclarations(fr.file)[Max(Writers(fr.file, k, n))])[n]

\* a name produced twice with different entries, by a namespace re-export
\* and by a named re-export, in either order
Collision(first, second) ==
    \E p \in DOMAIN stack : \E n \in Names :
        LET fr == stack[p]
            decls == ExportDeclarations(fr.file)
            w == Writers(fr.file, fr.idx - 1, n)
        IN \E i, j \in w :
            /\ i < j
            /\ decls[i].kind = first /\ decls[j].kind = second
            /\ Contribution(decls[i])[n] # Contribution(decls[j])[n]

NamedOverridesNamespace == Collision("star", "named") /\ ~AtDecl

\* the files of the running call chain
OnChain == {stack[p].file : p \in DOMAIN stack}

\* C27: every file in `seen` is on the call chain or has its map in
\* reExportCache; an `export *` whose target is not on the call chain
\* merges the whole map of the target, never an empty one in its place;
\* a top-level call that walks a file starts with `seen` holding that file
\* alone.
VisitingDiscipline ==
    /\ [](\A f \in seen : f \in OnChain \/ f \in DOMAIN reExportCache)
    /\ [][(AtDecl /\ CurDecl.target # NoFile /\ CurDecl.kind = "star"
             /\ CurDecl.target \notin OnChain /\ Len(stack') = Len(stack)) =>
                /\ CurDecl.target \in DOMAIN reExportCache
                /\ stack'[Len(stack)].map =
                        MapMerge(Top.map, reExportCache[CurDecl.target])]_vars
    /\ [][(~Running /\ stack' # <<>>) => seen' = {stack'[1].file}]_vars

\* index.ts has taken the map of c.ts, not an empty one, from the cache on
\* reaching c.ts a second time, b.ts having walked it before in the same call
DiamondSecondVisit ==
    /\ world \in DiamondWorlds
    /\ calls = 1 /\ Len(stack) = 1 /\ Top.file = "A" /\ ~AtDecl
    /\ {"B", "C"} \subseteq seen
    /\ walked["C"] = 1
    /\ reExportCache["C"] # EmptyMap
    /\ Top.map = reExportCache["C"]

----------------------------------------------------------------------------
(* Properties of the import rewriter *)

\* the first run has analysed every file and run every write action
FirstRunDone == run = 1 /\ queue = <<>> /\ writes = <<>>

\* the original import declaration is one processImportDeclaration handles
Handled(f, imp) == IsBarrelImport(f, imp)

\* the declaration the compiler finds for a named import of a barrel import
TrueDeclaration(f, imp, b) ==
    ExportedDeclaration(ModuleSpecifierSourceFile(f, imp.spec), b.name, {})

\* import declaration `now` carries the local name of binding b of the
\* original declaration imp, under another specifier, as clause c
MovedAs(imp, b, now, c) ==
    /\ now.spec # imp.spec
    /\ \E k \in DOMAIN now.named : now.named[k] = c
    /\ UsedName(c) = UsedName(b)

\* C1: alias fidelity.  A named binding that was moved to the module that
\* declares it is imported there under the name the module declares it by,
\* with `as localAlias` exactly when that name differs from the local alias.
AliasFidelity ==
    FirstRunDone =>
        \A f \in Importers : \A i \in DOMAIN original[f] :
            LET imp == original[f][i] IN
            Handled(f, imp) =>
                \A k \in DOMAIN imp.named : \A j \in DOMAIN ast[f] :
                    \A m \in DOMAIN ast[f][j].named :
                        LET b == imp.named[k]
                            c == ast[f][j].named[m]
                            decl == TrueDeclaration(f, imp, b)
                        IN (decl # NoDecl /\ MovedAs(imp, b, ast[f][j], c)) =>
                                /\ c.name = decl.name
                                /\ (c.alias = NoName) = (decl.name = UsedName(b))

\* C2: conservation.  Once the rewrite of a file is applied, its imports
\* bind the local names they bound before.
Conservation ==
    FirstRunDone => \A f \in Importers : BoundNames(ast[f]) = BoundNames(original[f])

\* C3: idempotence.  The second run over the tree the first run wrote plans
\* no write action and leaves every import declaration as it found it.
Idempotence ==
    run = 2 => writes = <<>> /\ ast = disk

\* the target has an export statement with a module specifier
ReExports(f) == \E i \in DOMAIN world[f] : world[f][i].kind \in {"star", "named"}

\* the import is local, resolves, and its target re-exports something
LocalBarrelImport(f, imp) ==
    /\ StartsWithDot(imp.spec) \/ MatchesAlias(imp.spec)
    /\ ModuleSpecifierSourceFile(f, imp.spec) # NoFile
    /\ ReExports(ModuleSpecifierSourceFile(f, imp.spec))

\* C10: frame.  An import declaration that is external, does not resolve,
\* or targets a module that re-exports nothing is still in the file,
\* unchanged, whatever the first run did.
OnlyBarrelImportsTouched ==
    run = 1 =>
        \A f \in Importers : \A i \in DOMAIN original[f] :
            ~LocalBarrelImport(f, original[f][i]) =>
                /\ \E j \in DOMAIN ast[f] : ast[f][j] = original[f][i]
                /\ \A w \in DOMAIN writes :
                        writes[w].file = f => i \notin writes[w].remove

\* the import is local and its specifier resolves to a file of the project
LocalResolved(f, imp) ==
    /\ StartsWithDot(imp.spec) \/ MatchesAlias(imp.spec)
    /\ ModuleSpecifierSourceFile(f, imp.spec) # NoFile

\* C11: a local import is handled as a barrel import exactly when its target
\* has an export statement with a module specifier, and an import of a
\* target without one is in no write action's list of imports to remove,
\* once the file has been analysed.
BarrelIffReExports ==
    (run = 1 /\ queue = <<>>) =>
        \A f \in Importers : \A i \in DOMAIN original[f] :
            LET imp == original[f][i] IN
            LocalResolved(f, imp) =>
                /\ IsBarrelImport(f, imp) <=> ReExports(ModuleSpecifierSourceFile(f, imp.spec))
                /\ ~ReExports(ModuleSpecifierSourceFile(f, imp.spec)) =>
                        \A w \in DOMAIN writes : i \notin writes[w].remove

\* the export map of the target of a barrel import, built on its own
ExportMapOf(f, imp) == GetReExportMap(ModuleSpecifierSourceFile(f, imp.spec), EmptyMap).map

\* C12: symbol-not-found fallback.  A named binding of a barrel import whose
\* name is no entry of the barrel's export map is, after the rewrite, still
\* imported under the original specifier and under no other.
NotInMapStays ==
    FirstRunDone =>
        \A f \in Importers : \A i \in DOMAIN original[f] :
            LET imp == original[f][i] IN
            Handled(f, imp) =>
                \A k \in DOMAIN imp.named :
                    LET b == imp.named[k] IN
                    b.name \notin DOMAIN ExportMapOf(f, imp) =>
                        \A j \in DOMAIN ast[f] : \A m \in DOMAIN ast[f][j].named :
                            UsedName(ast[f][j].named[m]) = UsedName(b) =>
                                /\ ast[f][j].spec = imp.spec
                                /\ ast[f][j].named[m].name = b.name

\* C13: type-only preservation.  After the rewrite the clause that binds a
\* local name is type-only exactly when the original clause binding that
\* name was.
TypeOnlyPreserved ==
    FirstRunDone =>
        \A f \in Importers : \A i \in DOMAIN original[f] : \A k \in DOMAIN original[f][i].named :
            \A j \in DOMAIN ast[f] : \A m \in DOMAIN ast[f][j].named :
                UsedName(ast[f][j].named[m]) = UsedName(original[f][i].named[k]) =>
                    ast[f][j].named[m].typeOnly = original[f][i].named[k].typeOnly

\* the specifier under which file g is imported from f, written the way
\* the import declaration imp is written (alias or relative path)
SpecifierFor(f, imp, g) ==
    ResolvedSpecifier([isAliasImport |-> ~StartsWithDot(imp.spec) /\ MatchesAlias(imp.spec),
                       sourceFile |-> f], g)

\* the default binding of a barrel import is declared under another specifier
DefaultMoves(f, imp) ==
    /\ imp.def # NoName
    /\ DefaultDeclarationFile(ModuleSpecifierSourceFile(f, imp.spec)) # NoFile
    /\ SpecifierFor(f, imp, DefaultDeclarationFile(ModuleSpecifierSourceFile(f, imp.spec)))
            # imp.spec

\* the named binding b of a barrel import is declared under another specifier
NamedMoves(f, imp, b) ==
    /\ TrueDeclaration(f, imp, b) # NoDecl
    /\ SpecifierFor(f, imp, TrueDeclaration(f, imp, b).file) # imp.spec

\* some binding of the import declaration moves
SomeBindingMoves(f, imp) ==
    /\ Handled(f, imp)
    /\ DefaultMoves(f, imp) \/ \E k \in DOMAIN imp.named : NamedMoves(f, imp, imp.named[k])

\* C14: an import declaration is listed for removal only if one of its
\* bindings moves; if no binding of any import declaration of the file
\* moves, no write action is returned for the file and its declarations in
\* memory and on disk are the original ones.
RemovedOnlyIfMoved ==
    run = 1 =>
        \A f \in Importers :
            /\ \A w \in DOMAIN writes : \A i \in writes[w].remove :
                    writes[w].file = f => SomeBindingMoves(f, original[f][i])
            /\ (\A i \in DOMAIN original[f] : ~SomeBindingMoves(f, original[f][i])) =>
                    /\ \A w \in DOMAIN writes : writes[w].file # f
                    /\ ast[f] = original[f]
                    /\ disk[f] = original[f]
            /\ FirstRunDone =>
                    \A i \in DOMAIN original[f] :
                        ~SomeBindingMoves(f, original[f][i]) =>
                            \E j \in DOMAIN ast[f] : ast[f][j] = original[f][i]

\* a file of two barrel imports was analysed: the first is listed for
\* removal, the second, of which nothing moves, is not
OneRemovedOneLeft ==
    /\ run = 1 /\ queue = <<>> /\ Len(writes) = 1
    /\ Len(original["main"]) = 2
    /\ writes[1].remove = {1}
    /\ Handled("main", original["main"][2])
    /\ ~SomeBindingMoves("main", original["main"][2])

\* C15: a dry run leaves the file system as it is.  With isDryRun set no
\* step of runBarrelBreaker changes a saved source file and no step of
\* purgeBarrels removes or changes a file.
DryRunWritesNothing ==
    /\ [][isDryRun => (disk' = disk /\ fsFiles' = fsFiles)]_vars
    /\ [](isDryRun => (disk = original /\ DOMAIN fsFiles = Files))

\* a dry run of the rewriter that had an import to rewrite, followed by a
\* dry run of purge that found a pure barrel
BothDryRunsActed ==
    /\ isDryRun
    /\ queue = <<>> /\ writes = <<>> /\ writesRun = 1 /\ ast # original
    /\ ScanDone /\ AllHandled /\ pureBarrelFiles # <<>>
    /\ Len(log) = Len(pureBarrelFiles) + Len(impureBarrelFiles)

\* the pairs (alias, base path) of the table under which the path falls
BasesOver(paths, resolvedPath) ==
    {ik \in (DOMAIN paths) \X (1..(MaxBases + 1)) :
        /\ ik[2] \in DOMAIN paths[ik[1]].bases
        /\ IsPrefix(paths[ik[1]].bases[ik[2]], resolvedPath)}

\* C16: resolveAlias returns null exactly when the path falls under no base
\* path of any alias, and otherwise the path with one of the base paths it
\* falls under replaced by that base path's alias.
AliasUnderAnyBase ==
    (aliasCall # NoCall /\ aliasCall.done) =>
        LET over == BasesOver(aliasCall.paths, aliasCall.resolvedPath) IN
        /\ (aliasCall.result = Null) <=> (over = {})
        /\ over # {} =>
            \E ik \in over :
                aliasCall.result =
                    <<aliasCall.paths[ik[1]].alias>>
                    \o SubSeq(aliasCall.resolvedPath,
                              Len(aliasCall.paths[ik[1]].bases[ik[2]]) + 1,
                              Len(aliasCall.resolvedPath))

\* import declarations of the file that the run replaces
ImportsReplaced(f) ==
    Cardinality({i \in DOMAIN original[f] : SomeBindingMoves(f, original[f][i])})

\* bindings of one import declaration that the run moves
BindingsMoved(f, imp) ==
    IF ~Handled(f, imp) THEN 0
    ELSE (IF DefaultMoves(f, imp) THEN 1 ELSE 0)
         + Cardinality({k \in DOMAIN imp.named : NamedMoves(f, imp, imp.named[k])})

RECURSIVE BindingsMovedFrom(_, _)
BindingsMovedFrom(f, i) ==
    IF i > Len(original[f]) THEN 0
    ELSE BindingsMoved(f, original[f][i]) + BindingsMovedFrom(f, i + 1)

RECURSIVE SumOverFiles(_, _, _)
SumOverFiles(Count(_), files, i) ==
    IF i > Len(files) THEN 0 ELSE Count(files[i]) + SumOverFiles(Count, files, i + 1)

BindingsMovedIn(f) == BindingsMovedFrom(f, 1)

\* C17: the summary of the first run gives the number of source files
\* processed, the number of import declarations the run replaced and the
\* number of bindings it moved.
SummaryCounts ==
    (run = 1 /\ summary # NoSummary) =>
        /\ summary.files = Len(SourceFiles)
        /\ summary.imports = SumOverFiles(ImportsReplaced, SourceFiles, 1)
        /\ summary.bindings = SumOverFiles(BindingsMovedIn, SourceFiles, 1)

\* C19: a default binding of a barrel import that does not move is still
\* imported as default from the original specifier once the rewrite is
\* applied, also when the import declaration it stood in was removed.
DefaultLeftUntouched ==
    FirstRunDone =>
        \A f \in Importers : \A i \in DOMAIN original[f] :
            LET imp == original[f][i] IN
            (Handled(f, imp) /\ imp.def # NoName /\ ~DefaultMoves(f, imp)) =>
                \E j \in DOMAIN ast[f] :
                    ast[f][j].spec = imp.spec /\ ast[f][j].def = imp.def

\* every file is analysed and no write action has run yet
AnalysedOnly == run = 1 /\ queue = <<>> /\ writesRun = 0

\* the named bindings of a barrel import that do not move, in clause order
KeptBindings(f, imp) == SelectSeq(imp.named, LAMBDA b : ~NamedMoves(f, imp, b))

\* the (name, alias) pairs of a sequence of named bindings
NameAliasPairs(named) == {<<named[k].name, named[k].alias>> : k \in DOMAIN named}

\* the original import declarations of f that are rewritten and keep a binding
RewrittenWithKept(f) ==
    {i \in DOMAIN original[f] :
        SomeBindingMoves(f, original[f][i]) /\ KeptBindings(f, original[f][i]) # <<>>}

\* the import declarations the analysis added to the file
EmittedBy(f) == SubSeq(ast[f], Len(original[f]) + 1, Len(ast[f]))

\* C20: the analysis of a file adds one import of the original specifier
\* for each rewritten import declaration that keeps some named binding, and
\* none for any other; the added import holds exactly the kept bindings,
\* each under its original name and alias.
ResidualImportExact ==
    AnalysedOnly =>
        \A f \in Importers :
            /\ SubSeq(ast[f], 1, Len(original[f])) = original[f]
            /\ Len(EmittedBy(f)) = Cardinality(RewrittenWithKept(f))
            /\ \A i \in RewrittenWithKept(f) :
                LET imp == original[f][i]
                    residual == EmittedBy(f)[Cardinality({j \in RewrittenWithKept(f) : j <= i})]
                IN /\ residual.spec = imp.spec
                   /\ Len(residual.named) = Len(KeptBindings(f, imp))
                   /\ NameAliasPairs(residual.named) = NameAliasPairs(KeptBindings(f, imp))

\* a file was analysed of which one rewritten import declaration keeps an
\* aliased binding and another keeps none
ResidualForOneOnly ==
    /\ AnalysedOnly
    /\ \E f \in Importers : \E i, j \in DOMAIN original[f] :
        /\ i \in RewrittenWithKept(f)
        /\ \E k \in DOMAIN KeptBindings(f, original[f][i]) :
                KeptBindings(f, original[f][i])[k].alias # NoName
        /\ SomeBindingMoves(f, original[f][j])
        /\ j \notin RewrittenWithKept(f)

\* the specifiers the moving bindings of one import declaration resolve to,
\* the default binding first, then the named bindings in clause order
MovedSpecsOf(f, imp) ==
    LET declFile == DefaultDeclarationFile(ModuleSpecifierSourceFile(f, imp.spec))
        moving == SelectSeq(imp.named, LAMBDA b : NamedMoves(f, imp, b))
    IN IF ~Handled(f, imp) THEN <<>>
       ELSE (IF DefaultMoves(f, imp) THEN <<SpecifierFor(f, imp, declFile)>> ELSE <<>>)
            \o [k \in DOMAIN moving |->
                    SpecifierFor(f, imp, TrueDeclaration(f, imp, moving[k]).file)]

RECURSIVE MovedSpecs(_, _)
\* the same over the original import declarations of f from declaration i on
MovedSpecs(f, i) ==
    IF i > Len(original[f]) THEN <<>>
    ELSE MovedSpecsOf(f, original[f][i]) \o MovedSpecs(f, i + 1)

\* a sequence without the later occurrences of its elements
FirstSeen(seq) ==
    SelectSeq([k \in DOMAIN seq |-> [at |-> k, v |-> seq[k]]],
              LAMBDA e : \A j \in 1..(e.at - 1) : seq[j] # e.v)

\* the import declarations the write action added to the file: the ones
\* after the declarations that were not removed and the residual imports
GeneratedIn(f) ==
    LET removed == {i \in DOMAIN original[f] : SomeBindingMoves(f, original[f][i])}
        left == Len(original[f]) - Cardinality(removed) + Cardinality(RewrittenWithKept(f))
    IN SubSeq(ast[f], left + 1, Len(ast[f]))

\* C21: the import declarations generated for a file have pairwise
\* distinct specifiers, one for each specifier some moving binding of the
\* file resolves to, in the order in which the specifiers were first seen;
\* each has at most one default binding.
GroupedInFirstSeenOrder ==
    FirstRunDone =>
        \A f \in Importers :
            LET gen == GeneratedIn(f)
                seenOrder == FirstSeen(MovedSpecs(f, 1))
            IN /\ \A i, j \in DOMAIN gen : gen[i].spec = gen[j].spec => i = j
               /\ Len(gen) = Len(seenOrder)
               /\ \A i \in DOMAIN gen : gen[i].spec = GroupKey(seenOrder[i].v)
               /\ \A i \in DOMAIN gen :
                    \/ gen[i].def = NoName
                    \/ \E k \in DOMAIN original[f] :
                        LET imp == original[f][k] IN
                        /\ Handled(f, imp) /\ DefaultMoves(f, imp)
                        /\ gen[i].def = imp.def
                        /\ gen[i].spec = GroupKey(MovedSpecsOf(f, imp)[1])

\* two import declarations were generated, and the specifier of the first
\* was seen again after the specifier of the second
TwoGroupsOneSeenTwice ==
    /\ FirstRunDone
    /\ \E f \in Importers :
        LET specs == MovedSpecs(f, 1) IN
        /\ Len(GeneratedIn(f)) = 2
        /\ \E i, j, k \in DOMAIN specs :
            i < j /\ j < k /\ specs[i] = specs[k] /\ specs[i] # specs[j]

\* C22: the analysis of a file inserts no import declaration into any
\* file and removes none; only the write actions change import declarations.
AnalysisMutatesNothing ==
    [][(run' = run /\ Len(queue') < Len(queue)) => ast' = ast]_vars

\* C23: once the interrupt signal has arrived, no further source file is
\* analysed and no file that was still to be analysed is written; when the
\* process has ended on the signal in write mode, no file is left with
\* import declarations changed in memory but not saved.
InterruptStopsRun ==
    /\ [][sigint = "pending" =>
            /\ queue' = queue
            /\ \A k \in DOMAIN queue : disk'[queue[k]] = disk[queue[k]]]_vars
    /\ []((sigint = "handled" /\ ~isDryRun) => ast = disk)

\* C24: the replacement imports produced for a file are the ones its
\* analysis produces when it is the first file analysed, that is with an
\* empty reExportCache, whatever was analysed before it.
OrderIndependent ==
    (run = 1 /\ queue = <<>> /\ writesRun = 0) =>
        \A f \in DOMAIN ast :
            LET first == RewriteImportsInFile(f, original[f], EmptyMap) IN
            /\ first.changed = (\E w \in DOMAIN writes : writes[w].file = f)
            /\ \A w \in DOMAIN writes :
                writes[w].file = f => writes[w].groups = first.groups

\* C25: no import declaration is generated under the specifier null:
\* neither a group of a write action nor an import declaration of a file
\* has it.
ValidTargetSpecifier ==
    /\ \A w \in DOMAIN writes : \A g \in DOMAIN writes[w].groups :
            writes[w].groups[g].specifier # GroupKey(Null)
    /\ \A f \in DOMAIN ast : \A i \in DOMAIN ast[f] : ast[f][i].spec # GroupKey(Null)

\* the import declarations of a sequence that the file did not have before
AddedTo(f, imps) ==
    {imps[i] : i \in DOMAIN imps} \ {original[f][i] : i \in DOMAIN original[f]}

\* C26: the import declarations the dry-run diff of a file shows as added
\* are the import declarations the write action adds to the file, the ones
\* write mode saves, the residual import of the original specifier included.
PreviewFidelity ==
    (run = 1 /\ isDryRun) =>
        \A f \in DOMAIN shown : AddedTo(f, shown[f]) = AddedTo(f, ast[f])

----------------------------------------------------------------------------
(* Properties of purge *)

Listed(files) == {files[i] : i \in DOMAIN files}

\* every top-level statement of the file is an export statement with a
\* module specifier, and there is at least one
OnlyReExports(f) ==
    /\ Len(world[f]) >= 1
    /\ \A i \in DOMAIN world[f] : world[f][i].kind \in {"star", "named"}

PurgeDone == ScanDone /\ AllHandled

\* C8: purgeBarrels without dry-run deletes the scanned files that are pure
\* barrels and only those: a file is gone only if it was scanned, is a pure
\* barrel and the run is no dry run; when the run is over every pure barrel
\* is gone; every file that is left holds what it held before.
PurgeDeletesExactlyPure ==
    /\ \A f \in Files \ DOMAIN fsFiles :
            f \in Listed(ScannedFiles) /\ OnlyReExports(f) /\ ~isDryRun
    /\ \A f \in DOMAIN fsFiles : fsFiles[f] = IF f \in Modules THEN world[f] ELSE <<>>
    /\ (PurgeDone /\ ~isDryRun) =>
            \A f \in Listed(ScannedFiles) : OnlyReExports(f) => f \notin DOMAIN fsFiles

\* a purge that deleted a pure barrel and kept an impure barrel and a file
\* that is no barrel
PurgedOneKeptTwo ==
    /\ PurgeDone /\ ~isDryRun
    /\ \E f, g, h \in Modules :
        /\ f \notin DOMAIN fsFiles
        /\ g \in Listed(impureBarrelFiles) /\ g \in DOMAIN fsFiles
        /\ h \notin Listed(pureBarrelFiles) \cup Listed(impureBarrelFiles)
        /\ h \in DOMAIN fsFiles /\ world[h] # <<>>

Occurrences(files, f) == Cardinality({i \in DOMAIN files : files[i] = f})

\* C9: isPureBarrelFile is true of a module exactly when it has a statement
\* and all its statements are export statements with a module specifier; so
\* it is false of a module without statements; and every module purgeBarrels
\* has scanned is in one of the two arrays at most, once, in pureBarrelFiles
\* exactly when it is a pure barrel.
PurityPartition ==
    /\ \A f \in Modules : IsPureBarrelFile(world[f]) <=> OnlyReExports(f)
    /\ \A f \in Modules : world[f] = <<>> => ~IsPureBarrelFile(world[f])
    /\ \A f \in Modules :
        /\ Occurrences(pureBarrelFiles, f) + Occurrences(impureBarrelFiles, f) <= 1
        /\ f \in Listed(pureBarrelFiles) => OnlyReExports(f)
        /\ f \in Listed(impureBarrelFiles) => ~OnlyReExports(f)
        /\ (f \notin Listed(purgeQueue) /\ fsFiles # EmptyMap /\ OnlyReExports(f))
                => f \in Listed(pureBarrelFiles)

\* a scan that found a module of each class, one of them without statements
OneOfEachClass ==
    /\ ScanDone
    /\ pureBarrelFiles # <<>> /\ impureBarrelFiles # <<>>
    /\ \E f \in Modules :
        world[f] = <<>> /\ f \notin Listed(pureBarrelFiles) \cup Listed(impureBarrelFiles)

====
